---- MODULE Spec2Model ----
(***************************************************************************)
(* Model of the BlueConnect Go BLE integration:                            *)
(*   BlueConnectGo/parser.py  - update_device, _get_status and the         *)
(*                              notification handler _receive_status       *)
(*                                                                         *)
(* Numbers.  Python floats are modelled as fixed-point integers; every     *)
(* sensor key has its own unit:                                            *)
(*   temperature      1/100 degC      pH    1/1000       ORP   1/100 mV     *)
(*   EC               uS/cm           salt_raw 1/10 ppm  salt  1/100 ppm    *)
(*   salt_grams       1/10 g/L        battery_voltage mV battery 1/10 %     *)
(*   chlorine_raw, chlorine  1/1000 ppm                                    *)
(* History samples: salt_history in 1/1000 ppm (the unrounded salt_ppm),   *)
(* chlorine_history in 1/1000 ppm.                                         *)
(* An optional value is a sequence: <<>> is None, <<v>> is the number v.   *)
(***************************************************************************)
EXTENDS Integers, Sequences, FiniteSets, TLC

\* ---------------------------------------------------------------- bounds
\* update_device calls started over a behaviour
MaxCycles == 3
\* notifications the peripheral sends on one connection
MaxNotifs == 2
\* notifications handled against the single device object of SpecHandler
MaxSamples == 7

\* ------------------------------------------------------- program constants
max_history_len == 3
PH_CENTER == 2048
PH_SCALE == 232
BATT_MAX_MV == 3640
BATT_MIN_MV == 2800
orp_ref_base == 700

None == <<>>
Num(v) == <<v>>

\* the eleven keys _receive_status writes
SensorKeys ==
    {"temperature", "pH", "ORP", "EC", "salt", "salt_raw", "salt_grams",
     "battery", "battery_voltage", "chlorine", "chlorine_raw"}

Min(a, b) == IF a < b THEN a ELSE b
Max(a, b) == IF a > b THEN a ELSE b

\* Python round(): n/d rounded to the nearest integer, ties to even (n >= 0, d > 0)
RoundDiv(n, d) ==
    LET q == n \div d
        r == n % d
    IN  IF 2 * r < d THEN q
        ELSE IF 2 * r > d THEN q + 1
        ELSE IF q % 2 = 0 THEN q ELSE q + 1

\* floor(a * b / c) without leaving 32 bits (b >= 0, c > 0)
MulDiv(a, b, c) == (a \div c) * b + ((a % c) * b) \div c

RECURSIVE SumSeq(_)
SumSeq(s) == IF s = <<>> THEN 0 ELSE Head(s) + SumSeq(Tail(s))

\* variant of Slice: the window starts one byte early, data[a-1:b-1]
Slice_one_early(data, a, b) ==
    IF a - 1 >= Min(b - 1, Len(data)) THEN <<>> ELSE SubSeq(data, a, Min(b - 1, Len(data)))

\* Python data[a:b] on a byte sequence: clipped to the length, never raises
Slice(data, a, b) ==
    IF a >= Min(b, Len(data)) THEN <<>> ELSE SubSeq(data, a + 1, Min(b, Len(data)))

\* int.from_bytes(bs, byteorder="little"); int.from_bytes(b"") is 0
RECURSIVE from_bytes(_)
from_bytes(bs) == IF bs = <<>> THEN 0 ELSE Head(bs) + 256 * from_bytes(Tail(bs))

\* dict assignment m[k] = v
Put(m, k, v) == [x \in (DOMAIN m) \cup {k} |-> IF x = k THEN v ELSE m[x]]

\* variant of AppendCapped: pop() in place of pop(0), the newest sample is dropped
AppendCapped_pops_newest(h, x, cap) ==
    LET a == Append(h, x) IN IF Len(a) > cap THEN SubSeq(a, 1, Len(a) - 1) ELSE a

\* list.append(x) followed by "if len(list) > cap: list.pop(0)"
AppendCapped(h, x, cap) ==
    LET a == Append(h, x) IN IF Len(a) > cap THEN Tail(a) ELSE a

\* 10 ** (-j/10) in 1e-6, j = 0..10
Pow10Tab ==
    <<1000000, 794328, 630957, 501187, 398107, 316228,
      251189, 199526, 158489, 125893, 100000>>

RECURSIVE Pow10Int(_)
Pow10Int(n) == IF n = 0 THEN 1 ELSE 10 * Pow10Int(n - 1)

\* 10 ** (lm/1000) in 1e-8 mol/L for -6000 <= lm <= 0: the table, linearly
\* interpolated between tenths of the exponent
Pow10(lm) ==
    LET n  == 0 - lm
        q  == n \div 1000
        r  == n % 1000
        j  == r \div 100
        f  == r % 100
        hi == Pow10Tab[j + 1]
        lo == Pow10Tab[j + 2]
        m6 == hi - ((hi - lo) * f) \div 100
    IN  (m6 * 100) \div Pow10Int(q)

\* ------------------------------------------------ BlueConnectGoDevice
\* BlueConnectGoDevice(): every field at its dataclass default
BlueConnectGoDevice ==
    [name |-> "", address |-> "", sensors |-> <<>>,
     chlorine_history |-> <<>>, salt_history |-> <<>>]

\* ------------------------------------------------ _receive_status
\* variant of SaltStep: the else branch of line 136 writes nothing
SaltStep_omits_absent(device, raw_ec) ==
    IF raw_ec # 0 THEN
        LET salt_ppm == raw_ec * 256
            hist     == AppendCapped(device.salt_history, salt_ppm, max_history_len * 2)
            total    == SumSeq(hist)
            s1 == Put(device.sensors, "salt_raw", Num(RoundDiv(salt_ppm, 100)))
            s2 == Put(s1, "salt", Num(RoundDiv(total, Len(hist) * 10)))
            s3 == Put(s2, "salt_grams", Num(RoundDiv(total, Len(hist) * 100000)))
            s4 == Put(s3, "EC", Num(raw_ec))
        IN  [device EXCEPT !.sensors = s4, !.salt_history = hist]
    ELSE device

\* variant of SaltStep: no test of raw_ec, a zero reading is reported and smoothed
SaltStep_reports_zero(device, raw_ec) ==
    LET salt_ppm == raw_ec * 256
        hist     == AppendCapped(device.salt_history, salt_ppm, max_history_len * 2)
        total    == SumSeq(hist)
        s1 == Put(device.sensors, "salt_raw", Num(RoundDiv(salt_ppm, 100)))
        s2 == Put(s1, "salt", Num(RoundDiv(total, Len(hist) * 10)))
        s3 == Put(s2, "salt_grams", Num(RoundDiv(total, Len(hist) * 100000)))
        s4 == Put(s3, "EC", Num(raw_ec))
    IN  [device EXCEPT !.sensors = s4, !.salt_history = hist]

\* variant of SaltStep: the rounded salt_raw is what enters the history
SaltStep_appends_rounded(device, raw_ec) ==
    IF raw_ec # 0 THEN
        LET salt_ppm == raw_ec * 256
            hist     == AppendCapped(device.salt_history, RoundDiv(salt_ppm, 100) * 100,
                                     max_history_len * 2)
            total    == SumSeq(hist)
            s1 == Put(device.sensors, "salt_raw", Num(RoundDiv(salt_ppm, 100)))
            s2 == Put(s1, "salt", Num(RoundDiv(total, Len(hist) * 10)))
            s3 == Put(s2, "salt_grams", Num(RoundDiv(total, Len(hist) * 100000)))
            s4 == Put(s3, "EC", Num(raw_ec))
        IN  [device EXCEPT !.sensors = s4, !.salt_history = hist]
    ELSE
        LET s1 == Put(device.sensors, "EC", None)
            s2 == Put(s1, "salt", None)
            s3 == Put(s2, "salt_raw", None)
            s4 == Put(s3, "salt_grams", None)
        IN  [device EXCEPT !.sensors = s4]

\* lines 114-140: electrical conductivity and salt
SaltStep(device, raw_ec) ==
    IF raw_ec # 0 THEN
        LET salt_ppm == raw_ec * 256
            hist     == AppendCapped(device.salt_history, salt_ppm, max_history_len * 2)
            total    == SumSeq(hist)
            s1 == Put(device.sensors, "salt_raw", Num(RoundDiv(salt_ppm, 100)))
            s2 == Put(s1, "salt", Num(RoundDiv(total, Len(hist) * 10)))
            s3 == Put(s2, "salt_grams", Num(RoundDiv(total, Len(hist) * 100000)))
            s4 == Put(s3, "EC", Num(raw_ec))
        IN  [device EXCEPT !.sensors = s4, !.salt_history = hist]
    ELSE
        LET s1 == Put(device.sensors, "EC", None)
            s2 == Put(s1, "salt", None)
            s3 == Put(s2, "salt_raw", None)
            s4 == Put(s3, "salt_grams", None)
        IN  [device EXCEPT !.sensors = s4]

\* lines 146-180: chlorine_ppm before the range check, in 1/10000 ppm.
\* raw_temp, raw_ph, raw_orp as decoded; smooth_salt is Num(1/1000 ppm) when
\* raw_ec # 0 and None otherwise.
ChlorineEstimate(raw_temp, raw_ph, raw_orp, smooth_salt) ==
    LET temp_K       == raw_temp + 27315                            \* 1/100 K
        nernst_slope == (temp_K * 3742) \div 10000                  \* 1/1000 mV
        ph7          == ((PH_CENTER - raw_ph) * 1000) \div PH_SCALE + 200   \* (pH - 7.0), 1/1000
        actual_orp   == raw_orp * 250 - 5000                        \* 1/1000 mV
        orp_ref      == orp_ref_base * 1000 - MulDiv(ph7, nernst_slope, 1000)
        orp_diff     == actual_orp - orp_ref
        log_raw      == MulDiv(orp_diff, 1000, nernst_slope)        \* 1/1000
        log_chlorine_mol == Max(0 - 6000, Min(log_raw, 0))
        chlorine_mol_L   == Pow10(log_chlorine_mol)                 \* 1e-8 mol/L
        ppm0         == MulDiv(chlorine_mol_L, 3545, 1000)          \* 1/10000 ppm
        salt_factor  == IF smooth_salt # None
                        THEN Max(7000, 10000 - smooth_salt[1] \div 5000)
                        ELSE 10000
    IN  MulDiv(ppm0, salt_factor, 10000)

\* variant of ChlorinePpm: an estimate above 5 ppm is clamped to 5 ppm
ChlorinePpm_clamps(raw_temp, raw_ph, raw_orp, smooth_salt) ==
    LET ppm == ChlorineEstimate(raw_temp, raw_ph, raw_orp, smooth_salt)
    IN  IF ppm > 50000 THEN Num(5000)
        ELSE IF ppm < 0 THEN Num(0)
        ELSE Num(RoundDiv(ppm, 10))

\* lines 146-188: the chlorine estimate after the range check of lines 182-188,
\* None when above 5 ppm, else rounded to 1/1000 ppm
ChlorinePpm(raw_temp, raw_ph, raw_orp, smooth_salt) ==
    LET ppm == ChlorineEstimate(raw_temp, raw_ph, raw_orp, smooth_salt)
    IN  IF ppm > 50000 THEN None
        ELSE IF ppm < 0 THEN Num(0)
        ELSE Num(RoundDiv(ppm, 10))

\* lines 190-205: chlorine_raw, the chlorine history and the smoothed value
ChlorineStep(device, chlorine_ppm) ==
    LET s1   == Put(device.sensors, "chlorine_raw", chlorine_ppm)
        hist == IF chlorine_ppm # None
                THEN AppendCapped(device.chlorine_history, chlorine_ppm[1], max_history_len)
                ELSE device.chlorine_history
        chlorine_ppm_smoothed ==
                IF hist # <<>> THEN Num(RoundDiv(SumSeq(hist), Len(hist))) ELSE None
        s2   == Put(s1, "chlorine", chlorine_ppm_smoothed)
    IN  [device EXCEPT !.sensors = s2, !.chlorine_history = hist]

\* variant of BatteryStep: the percentage is not clamped to 0..100
BatteryStep_unclamped(device, raw_batt) ==
    LET s1   == Put(device.sensors, "battery_voltage", Num(raw_batt))
        span == BATT_MAX_MV - BATT_MIN_MV
        s2   == Put(s1, "battery", Num(RoundDiv((raw_batt - BATT_MIN_MV) * 1000, span)))
    IN  [device EXCEPT !.sensors = s2]

\* lines 212-219: battery
BatteryStep(device, raw_batt) ==
    LET s1      == Put(device.sensors, "battery_voltage", Num(raw_batt))
        span    == BATT_MAX_MV - BATT_MIN_MV
        clamped == Max(0, Min((raw_batt - BATT_MIN_MV) * 1000, span * 1000))
        s2      == Put(s1, "battery", Num(RoundDiv(clamped, span)))
    IN  [device EXCEPT !.sensors = s2]

\* The whole handler: the device object after _receive_status(device, _, _, data)
_receive_status(device, data) ==
    LET raw_temp == from_bytes(Slice(data, 1, 3))
        raw_ph   == from_bytes(Slice(data, 3, 5))
        raw_orp  == from_bytes(Slice(data, 5, 7))
        raw_ec   == from_bytes(Slice(data, 7, 9))
        raw_batt == from_bytes(Slice(data, 9, 11))
        s1 == Put(device.sensors, "temperature", Num(raw_temp))
        s2 == Put(s1, "pH", Num(((PH_CENTER - raw_ph) * 1000) \div PH_SCALE + 7200))
        s3 == Put(s2, "ORP", Num(raw_orp * 25 - 500))
        d1 == SaltStep([device EXCEPT !.sensors = s3], raw_ec)
        smooth_salt == IF raw_ec # 0
                       THEN Num(SumSeq(d1.salt_history) \div Len(d1.salt_history))
                       ELSE None
        d2 == ChlorineStep(d1, ChlorinePpm(raw_temp, raw_ph, raw_orp, smooth_salt))
    IN  BatteryStep(d2, raw_batt)

\* variant of ChlorineExcept: only the smoothed value is cleared
ChlorineExcept_keeps_raw(device) ==
    [device EXCEPT !.sensors = Put(device.sensors, "chlorine", None)]

\* lines 207-210: the except clause of the chlorine block
ChlorineExcept(device) ==
    [device EXCEPT !.sensors = Put(Put(device.sensors, "chlorine_raw", None),
                                   "chlorine", None)]

\* Where a statement of the try block of lines 143-205 raises:
\* "estimate" in lines 144-188, before anything is written; "append" in lines
\* 194-197, after chlorine_raw was written; "smooth" in lines 199-204, after
\* the history was appended to; "none" when nothing raises.
Faults == {"none", "estimate", "append", "smooth"}

\* lines 143-210: the try block with a statement raising at fault
ChlorineTry(device, chlorine_ppm, fault) ==
    LET done    == ChlorineStep(device, chlorine_ppm)
        written == [device EXCEPT !.sensors = Put(device.sensors, "chlorine_raw", chlorine_ppm)]
    IN  CASE fault = "none"     -> done
          [] fault = "estimate" -> ChlorineExcept(device)
          [] fault = "append"   -> ChlorineExcept(written)
          [] fault = "smooth"   ->
                ChlorineExcept([written EXCEPT !.chlorine_history = done.chlorine_history])

\* lines 77-222: the handler when a statement of the chlorine block raises at fault
receive_status_fault(device, data, fault) ==
    LET raw_temp == from_bytes(Slice(data, 1, 3))
        raw_ph   == from_bytes(Slice(data, 3, 5))
        raw_orp  == from_bytes(Slice(data, 5, 7))
        raw_ec   == from_bytes(Slice(data, 7, 9))
        raw_batt == from_bytes(Slice(data, 9, 11))
        s1 == Put(device.sensors, "temperature", Num(raw_temp))
        s2 == Put(s1, "pH", Num(((PH_CENTER - raw_ph) * 1000) \div PH_SCALE + 7200))
        s3 == Put(s2, "ORP", Num(raw_orp * 25 - 500))
        d1 == SaltStep([device EXCEPT !.sensors = s3], raw_ec)
        smooth_salt == IF raw_ec # 0
                       THEN Num(SumSeq(d1.salt_history) \div Len(d1.salt_history))
                       ELSE None
        d2 == ChlorineTry(d1, ChlorinePpm(raw_temp, raw_ph, raw_orp, smooth_salt), fault)
    IN  BatteryStep(d2, raw_batt)

\* ------------------------------------------------ notification payloads
\* scenario A of the specification: temperature 1000, pH 2048, ORP 200,
\* EC 10000, battery 3232, thirteen bytes
FrameA == <<0, 232, 3, 0, 8, 200, 0, 16, 39, 160, 12, 0, 0>>
\* twelve bytes, EC 0 and ORP 700 mV: chlorine estimate far above 5 ppm
FrameHot == <<1, 232, 3, 0, 8, 4, 11, 0, 0, 56, 14, 0>>
\* twelve bytes, temperature 2500, EC 20000, ORP 642 mV: chlorine estimate inside 0..5 ppm
FrameB == <<2, 196, 9, 0, 8, 28, 10, 32, 78, 240, 10, 0>>
\* five bytes: the payload stops after the pH field
FrameShort == <<0, 232, 3, 0, 8>>

Frames == {FrameA, FrameHot, FrameB, FrameShort}

\* ------------------------------------------------ state
\* Two callers may be inside update_device for the same peripheral at once
\* (two presses of the Take Measurement button); each is a session.
Sessions == {1, 2}
\* One BlueConnectSensor per key of the Snapshot (sensor.py:156-163) and the
\* one BlueConnectFailedMeasurementsSensor (sensor.py:166)
EntityKeys == SensorKeys \cup {"failed_measurements"}

\* ble_device.address of the one peripheral
Address == "F3:30:00:01"

VARIABLES
    pc,        \* pc[s]: where session s is inside update_device / _get_status
    device,    \* device[s]: the BlueConnectGoDevice local to the call
    event,     \* event[s]: data_ready_event is set
    client,    \* client[s]: "none", "open" or "closed" transport connection
    handler,   \* handler[s]: _receive_status is registered on the notify characteristic
    timedout,  \* timedout[s]: wait_for ended with TimeoutError
    skipped,   \* skipped[s]: the current call was made with skip_query=True
    exc,       \* exc[s]: the transport call whose exception left update_device, or "none"
    calls,     \* calls[s]: transport calls made by the current update_device call, in order
    rx,        \* rx[s]: notification payloads handled during the current call, in order
    cycles,    \* update_device calls started so far
    streak,    \* consecutive finished cycles that handled exactly one notification with
               \* raw_ec # 0 (.salt), and with chlorine_raw present as well (.chlorine)
    data,      \* coordinator.data, the Snapshot the entities read
    _consecutive_failures,  \* the counter of each entity, by entity_description.key
    update_failed  \* update_failed[s]: the message of the UpdateFailed the last press
                   \* of s raised, or "none"

vars == <<pc, device, event, client, handler, timedout, skipped, exc, calls, rx, cycles, streak, data, _consecutive_failures, update_failed>>

\* update_device(ble_device, skip_query=True): what the call returns without any I/O
IdentityOnly == [BlueConnectGoDevice EXCEPT !.name = Address, !.address = Address]

Init ==
    /\ pc = [s \in Sessions |-> "idle"]
    /\ device = [s \in Sessions |-> BlueConnectGoDevice]
    /\ event = [s \in Sessions |-> FALSE]
    /\ client = [s \in Sessions |-> "none"]
    /\ handler = [s \in Sessions |-> FALSE]
    /\ timedout = [s \in Sessions |-> FALSE]
    /\ skipped = [s \in Sessions |-> FALSE]
    /\ exc = [s \in Sessions |-> "none"]
    /\ calls = [s \in Sessions |-> <<>>]
    /\ rx = [s \in Sessions |-> <<>>]
    /\ cycles = 0
    /\ streak = [salt |-> 0, chlorine |-> 0]
    /\ data = IdentityOnly
    /\ _consecutive_failures = [key \in EntityKeys |-> 0]
    /\ update_failed = [s \in Sessions |-> "none"]

\* ------------------------------------------------ update_device
\* variant of update_device: skip_query is not consulted, the call always connects
update_device_ignores_skip(s, skip_query) ==
    /\ pc[s] = "idle"
    /\ cycles < MaxCycles
    /\ cycles' = cycles + 1
    /\ device' = [device EXCEPT ![s] = IdentityOnly]
    /\ event' = [event EXCEPT ![s] = FALSE]
    /\ client' = [client EXCEPT ![s] = "none"]
    /\ handler' = [handler EXCEPT ![s] = FALSE]
    /\ timedout' = [timedout EXCEPT ![s] = FALSE]
    /\ skipped' = [skipped EXCEPT ![s] = skip_query]
    /\ exc' = [exc EXCEPT ![s] = "none"]
    /\ rx' = [rx EXCEPT ![s] = <<>>]
    /\ pc' = [pc EXCEPT ![s] = "connecting"]
    /\ calls' = [calls EXCEPT ![s] = <<"connect">>]
    /\ update_failed' = [update_failed EXCEPT ![s] = "none"]
    /\ UNCHANGED <<streak, data, _consecutive_failures>>

\* variant of update_device: the device object of the previous cycle (the one
\* handed to the coordinator) is reused instead of a fresh BlueConnectGoDevice()
update_device_reuses_snapshot(s, skip_query) ==
    /\ pc[s] = "idle"
    /\ cycles < MaxCycles
    /\ cycles' = cycles + 1
    /\ device' = [device EXCEPT ![s] = [data EXCEPT !.name = Address, !.address = Address]]
    /\ event' = [event EXCEPT ![s] = FALSE]
    /\ client' = [client EXCEPT ![s] = "none"]
    /\ handler' = [handler EXCEPT ![s] = FALSE]
    /\ timedout' = [timedout EXCEPT ![s] = FALSE]
    /\ skipped' = [skipped EXCEPT ![s] = skip_query]
    /\ exc' = [exc EXCEPT ![s] = "none"]
    /\ rx' = [rx EXCEPT ![s] = <<>>]
    /\ IF skip_query
       THEN /\ pc' = [pc EXCEPT ![s] = "returned"]
            /\ calls' = [calls EXCEPT ![s] = <<>>]
       ELSE /\ pc' = [pc EXCEPT ![s] = "connecting"]
            /\ calls' = [calls EXCEPT ![s] = <<"connect">>]
    /\ update_failed' = [update_failed EXCEPT ![s] = "none"]
    /\ UNCHANGED <<streak, data, _consecutive_failures>>

\* lines 224-239: a fresh device, the identity fields, then either the early
\* return (skip_query) or the call of establish_connection
update_device(s, skip_query) ==
    /\ pc[s] = "idle"
    /\ cycles < MaxCycles
    /\ cycles' = cycles + 1
    /\ device' = [device EXCEPT ![s] = IdentityOnly]
    /\ event' = [event EXCEPT ![s] = FALSE]
    /\ client' = [client EXCEPT ![s] = "none"]
    /\ handler' = [handler EXCEPT ![s] = FALSE]
    /\ timedout' = [timedout EXCEPT ![s] = FALSE]
    /\ skipped' = [skipped EXCEPT ![s] = skip_query]
    /\ exc' = [exc EXCEPT ![s] = "none"]
    /\ rx' = [rx EXCEPT ![s] = <<>>]
    /\ IF skip_query
       THEN /\ pc' = [pc EXCEPT ![s] = "returned"]
            /\ calls' = [calls EXCEPT ![s] = <<>>]
       ELSE /\ pc' = [pc EXCEPT ![s] = "connecting"]
            /\ calls' = [calls EXCEPT ![s] = <<"connect">>]
    /\ update_failed' = [update_failed EXCEPT ![s] = "none"]
    /\ UNCHANGED <<streak, data, _consecutive_failures>>

\* lines 237-241, 61-65: establish_connection returned a client; _get_status
\* creates the event and calls start_notify
establish_connection_ok(s) ==
    /\ pc[s] = "connecting"
    /\ pc' = [pc EXCEPT ![s] = "subscribing"]
    /\ client' = [client EXCEPT ![s] = "open"]
    /\ event' = [event EXCEPT ![s] = FALSE]
    /\ calls' = [calls EXCEPT ![s] = Append(@, "start_notify")]
    /\ UNCHANGED <<device, handler, timedout, skipped, exc, rx, cycles, streak, data, _consecutive_failures, update_failed>>

\* variant of establish_connection_raises: a finally clause calls disconnect
\* although no client was obtained
establish_connection_raises_then_disconnects(s) ==
    /\ pc[s] = "connecting"
    /\ pc' = [pc EXCEPT ![s] = "raised"]
    /\ exc' = [exc EXCEPT ![s] = "connect"]
    /\ calls' = [calls EXCEPT ![s] = Append(@, "disconnect")]
    /\ UNCHANGED <<device, event, client, handler, timedout, skipped, rx, cycles, streak, data, _consecutive_failures, update_failed>>

\* line 237: establish_connection raised; nothing catches it in update_device
establish_connection_raises(s) ==
    /\ pc[s] = "connecting"
    /\ pc' = [pc EXCEPT ![s] = "raised"]
    /\ exc' = [exc EXCEPT ![s] = "connect"]
    /\ UNCHANGED <<device, event, client, handler, timedout, skipped, calls, rx, cycles, streak, data, _consecutive_failures, update_failed>>

\* lines 63-66: start_notify returned; the trigger byte 0x01 is written
start_notify_ok(s) ==
    /\ pc[s] = "subscribing"
    /\ pc' = [pc EXCEPT ![s] = "writing"]
    /\ handler' = [handler EXCEPT ![s] = TRUE]
    /\ calls' = [calls EXCEPT ![s] = Append(@, "write_gatt_char")]
    /\ UNCHANGED <<device, event, client, timedout, skipped, exc, rx, cycles, streak, data, _consecutive_failures, update_failed>>

\* line 63: start_notify raised; the exception leaves _get_status and
\* update_device (no try/finally), line 243 is never reached
start_notify_raises(s) ==
    /\ pc[s] = "subscribing"
    /\ pc' = [pc EXCEPT ![s] = "raised"]
    /\ exc' = [exc EXCEPT ![s] = "start_notify"]
    /\ UNCHANGED <<device, event, client, handler, timedout, skipped, calls, rx, cycles, streak, data, _consecutive_failures, update_failed>>

\* lines 66-70: the write was acknowledged; wait_for(data_ready_event.wait(), 15)
write_gatt_char_ok(s) ==
    /\ pc[s] = "writing"
    /\ pc' = [pc EXCEPT ![s] = "waiting"]
    /\ UNCHANGED <<device, event, client, handler, timedout, skipped, exc, calls, rx, cycles, streak, data, _consecutive_failures, update_failed>>

\* line 66: write_gatt_char raised; as for start_notify, nothing disconnects
write_gatt_char_raises(s) ==
    /\ pc[s] = "writing"
    /\ pc' = [pc EXCEPT ![s] = "raised"]
    /\ exc' = [exc EXCEPT ![s] = "write_gatt_char"]
    /\ UNCHANGED <<device, event, client, handler, timedout, skipped, calls, rx, cycles, streak, data, _consecutive_failures, update_failed>>

\* variant of notification: the handler yields after data_ready_event.set()
\* of line 85, before it has written anything to the device
notification_yields_after_set(s, frame, limit) ==
    /\ handler[s]
    /\ client[s] = "open"
    /\ pc[s] \in {"waiting", "disconnecting"}
    /\ Len(rx[s]) < limit
    /\ event' = [event EXCEPT ![s] = TRUE]
    /\ rx' = [rx EXCEPT ![s] = Append(@, frame)]
    /\ UNCHANGED <<device, pc, client, handler, timedout, skipped, exc, calls, cycles, streak, data, _consecutive_failures, update_failed>>

\* lines 77-222: the peripheral notifies and the registered handler runs (it has
\* no await: it runs to its end in one step).  The handler stays registered
\* until the connection is closed; nothing calls stop_notify.
notification(s, frame, limit) ==
    /\ handler[s]
    /\ client[s] = "open"
    /\ pc[s] \in {"waiting", "disconnecting"}
    /\ Len(rx[s]) < limit
    /\ event' = [event EXCEPT ![s] = TRUE]
    /\ device' = [device EXCEPT ![s] = _receive_status(@, frame)]
    /\ rx' = [rx EXCEPT ![s] = Append(@, frame)]
    /\ UNCHANGED <<pc, client, handler, timedout, skipped, exc, calls, cycles, streak, data, _consecutive_failures, update_failed>>

\* lines 77-222: as notification, with a statement of the chlorine block
\* raising at fault; the except clause of line 207 ends the block and the
\* handler goes on with the battery
notification_fault(s, frame, fault, limit) ==
    /\ handler[s]
    /\ client[s] = "open"
    /\ pc[s] \in {"waiting", "disconnecting"}
    /\ Len(rx[s]) < limit
    /\ event' = [event EXCEPT ![s] = TRUE]
    /\ device' = [device EXCEPT ![s] = receive_status_fault(@, frame, fault)]
    /\ rx' = [rx EXCEPT ![s] = Append(@, frame)]
    /\ UNCHANGED <<pc, client, handler, timedout, skipped, exc, calls, cycles, streak, data, _consecutive_failures, update_failed>>

\* lines 70, 74-75, 242-243: the event was set, the wait returns, _get_status
\* returns and update_device calls client.disconnect()
data_ready(s) ==
    /\ pc[s] = "waiting"
    /\ event[s]
    /\ pc' = [pc EXCEPT ![s] = "disconnecting"]
    /\ calls' = [calls EXCEPT ![s] = Append(@, "disconnect")]
    /\ UNCHANGED <<device, event, client, handler, timedout, skipped, exc, rx, cycles, streak, data, _consecutive_failures, update_failed>>

\* variant of timer_expired: the trigger is written a second time after the
\* timeout before the disconnect
timer_expired_rewrites_trigger(s) ==
    /\ pc[s] = "waiting"
    /\ ~event[s]
    /\ timedout' = [timedout EXCEPT ![s] = TRUE]
    /\ pc' = [pc EXCEPT ![s] = "disconnecting"]
    /\ calls' = [calls EXCEPT ![s] = Append(Append(@, "write_gatt_char"), "disconnect")]
    /\ UNCHANGED <<device, event, client, handler, skipped, exc, rx, cycles, streak, data, _consecutive_failures, update_failed>>

\* lines 70-75, 242-243: NOTIFY_TIMEOUT passed with the event unset; the
\* TimeoutError is caught (asyncio.TimeoutError is the builtin one on the
\* Python versions the imports of the integration require) and the same path
\* to client.disconnect() is taken
timer_expired(s) ==
    /\ pc[s] = "waiting"
    /\ ~event[s]
    /\ timedout' = [timedout EXCEPT ![s] = TRUE]
    /\ pc' = [pc EXCEPT ![s] = "disconnecting"]
    /\ calls' = [calls EXCEPT ![s] = Append(@, "disconnect")]
    /\ UNCHANGED <<device, event, client, handler, skipped, exc, rx, cycles, streak, data, _consecutive_failures, update_failed>>

RawEc(frame) == from_bytes(Slice(frame, 7, 9))

\* lines 243-245: disconnect() completed, update_device returns device
disconnected(s) ==
    /\ pc[s] = "disconnecting"
    /\ pc' = [pc EXCEPT ![s] = "returned"]
    /\ client' = [client EXCEPT ![s] = "closed"]
    /\ handler' = [handler EXCEPT ![s] = FALSE]
    /\ UNCHANGED <<device, event, timedout, skipped, exc, calls, rx, cycles, streak, data, _consecutive_failures, update_failed>>

\* ------------------------------------------------ the entities (sensor.py)
\* sensor.py:228-236: BlueConnectSensor._handle_coordinator_update, the new
\* counter of the entity of key; sensors.get(key) is None for a missing key
BlueConnectSensor_handle_coordinator_update(failures, key, sensors) ==
    IF key \notin DOMAIN sensors \/ sensors[key] = None THEN failures + 1 ELSE 0

\* sensor.py:290-299: BlueConnectFailedMeasurementsSensor._handle_coordinator_update;
\* any() over the values present, False for an empty map
BlueConnectFailedMeasurementsSensor_handle_coordinator_update(failures, sensors) ==
    IF \E key \in DOMAIN sensors : sensors[key] = None THEN failures + 1 ELSE 0

\* sensor.py:209-226: BlueConnectSensor.available, native_value is not STATE_UNAVAILABLE
available(key) ==
    /\ ~(_consecutive_failures[key] >= 24)
    /\ key \in DOMAIN data.sensors
    /\ data.sensors[key] # None

\* ------------------------------------------------ the caller (button.py)
\* lines 83-86: update_device returned; coordinator.async_set_updated_data(data)
\* stores the Snapshot and calls the listener of every entity (sensor.py:207, 283)
async_set_updated_data(s) ==
    /\ pc[s] = "returned"
    /\ pc' = [pc EXCEPT ![s] = "idle"]
    /\ data' = device[s]
    /\ _consecutive_failures' =
           [key \in EntityKeys |->
               IF key = "failed_measurements"
               THEN BlueConnectFailedMeasurementsSensor_handle_coordinator_update(
                        _consecutive_failures[key], device[s].sensors)
               ELSE BlueConnectSensor_handle_coordinator_update(
                        _consecutive_failures[key], key, device[s].sensors)]
    /\ streak' = IF Len(rx[s]) = 1 /\ RawEc(rx[s][1]) # 0
                 THEN [salt |-> streak.salt + 1,
                       chlorine |-> IF device[s].sensors["chlorine_raw"] # None
                                    THEN streak.chlorine + 1 ELSE 0]
                 ELSE [salt |-> 0, chlorine |-> 0]
    /\ UNCHANGED <<device, event, client, handler, timedout, skipped, exc, calls, rx, cycles,
                   update_failed>>

\* variant of UpdateFailed: the except clause hands the device object of the
\* failed call to the coordinator before it raises
UpdateFailed_publishes(s) ==
    /\ pc[s] = "raised"
    /\ pc' = [pc EXCEPT ![s] = "idle"]
    /\ streak' = [salt |-> 0, chlorine |-> 0]
    /\ update_failed' = [update_failed EXCEPT ![s] = "Error while reading data"]
    /\ data' = device[s]
    /\ UNCHANGED <<device, event, client, handler, timedout, skipped, exc, calls, rx, cycles, _consecutive_failures>>

\* lines 87-89: update_device raised; UpdateFailed, coordinator.data untouched
UpdateFailed(s) ==
    /\ pc[s] = "raised"
    /\ pc' = [pc EXCEPT ![s] = "idle"]
    /\ streak' = [salt |-> 0, chlorine |-> 0]
    /\ update_failed' = [update_failed EXCEPT ![s] = "Error while reading data"]
    /\ UNCHANGED <<device, event, client, handler, timedout, skipped, exc, calls, rx, cycles, data, _consecutive_failures>>

\* lines 75-78: the button is pressed and async_ble_device_from_address finds
\* no device: UpdateFailed before update_device is called
device_not_found(s) ==
    /\ pc[s] = "idle"
    /\ update_failed' = [update_failed EXCEPT ![s] = "Bluetooth device not found"]
    /\ UNCHANGED <<pc, device, event, client, handler, timedout, skipped, exc, calls, rx, cycles, streak, data, _consecutive_failures>>

Step(s) ==
    \/ \E skip_query \in BOOLEAN : update_device(s, skip_query)
    \/ establish_connection_ok(s)
    \/ establish_connection_raises(s)
    \/ start_notify_ok(s)
    \/ start_notify_raises(s)
    \/ write_gatt_char_ok(s)
    \/ write_gatt_char_raises(s)
    \/ \E frame \in Frames : notification(s, frame, MaxNotifs)
    \/ data_ready(s)
    \/ timer_expired(s)
    \/ disconnected(s)
    \/ async_set_updated_data(s)
    \/ UpdateFailed(s)
    \/ device_not_found(s)

\* The specifications, all over the same state:
\*   Spec         one caller, its presses and update_device calls follow one another
\*   SpecOverlap  two callers whose calls may overlap
\*   SpecHandler  the notification handler alone, on one device object
\*   SpecFault, SpecBattery, SpecDecode, SpecSalt
\*                the handler alone with a raising chlorine block, on every
\*                battery value, on full-length payloads, on EC readings
\* one caller at a time: the update requests reach update_device one after another
Next == Step(1)
\* two callers that may overlap
NextOverlap == \E s \in Sessions : Step(s)

Spec == Init /\ [][Next]_vars
SpecOverlap == Init /\ [][NextOverlap]_vars

\* The handler alone: session 1 has connected, subscribed and written the
\* trigger, and the peripheral keeps notifying the one device object.
InitHandler ==
    /\ pc = [s \in Sessions |-> IF s = 1 THEN "waiting" ELSE "idle"]
    /\ device = [s \in Sessions |-> IF s = 1 THEN IdentityOnly ELSE BlueConnectGoDevice]
    /\ event = [s \in Sessions |-> FALSE]
    /\ client = [s \in Sessions |-> IF s = 1 THEN "open" ELSE "none"]
    /\ handler = [s \in Sessions |-> s = 1]
    /\ timedout = [s \in Sessions |-> FALSE]
    /\ skipped = [s \in Sessions |-> FALSE]
    /\ exc = [s \in Sessions |-> "none"]
    /\ calls = [s \in Sessions |->
                  IF s = 1 THEN <<"connect", "start_notify", "write_gatt_char">> ELSE <<>>]
    /\ rx = [s \in Sessions |-> <<>>]
    /\ cycles = 1
    /\ streak = [salt |-> 0, chlorine |-> 0]
    /\ data = IdentityOnly
    /\ _consecutive_failures = [key \in EntityKeys |-> 0]
    /\ update_failed = [s \in Sessions |-> "none"]

NextHandler == \E frame \in Frames : notification(1, frame, MaxSamples)

SpecHandler == InitHandler /\ [][NextHandler]_vars

\* The handler alone, any statement of its chlorine block raising or not
NextFault ==
    \E frame \in Frames, fault \in Faults : notification_fault(1, frame, fault, MaxNotifs + 1)

SpecFault == InitHandler /\ [][NextFault]_vars

\* a twelve-byte payload whose battery field (bytes 9 and 10) holds raw_batt,
\* the other fields as in scenario A
BatteryFrame(raw_batt) ==
    <<0, 232, 3, 0, 8, 200, 0, 16, 39, raw_batt % 256, raw_batt \div 256, 0>>

\* The handler run once on a payload with any 16-bit battery field
NextBattery ==
    /\ rx[1] = <<>>
    /\ \E raw_batt \in 0..65535 : notification(1, BatteryFrame(raw_batt), 1)

SpecBattery == InitHandler /\ [][NextBattery]_vars

\* Byte pairs of a 16-bit field: 1, 256 and 65535 low byte first
FieldBytes == {<<1, 0>>, <<0, 1>>, <<255, 255>>}
\* Bytes after the battery field: full-length payloads of 12 and 13 bytes
TailBytes == {<<0>>, <<255>>, <<7, 9>>}
\* Full-length payloads: any first byte, any five fields, any tail
DecodeFrames ==
    {<<b0>> \o t \o p \o o \o e \o b \o tail :
        b0 \in {0, 255}, t \in FieldBytes, p \in FieldBytes, o \in FieldBytes,
        e \in FieldBytes, b \in FieldBytes, tail \in TailBytes}

\* The handler run once on a full-length payload
NextDecode == \E frame \in DecodeFrames : notification(1, frame, 1)

SpecDecode == InitHandler /\ [][NextDecode]_vars

\* EC readings: none, the smallest, scenario A's, and one whose salt_ppm
\* (5120.256) is not a multiple of 0.1
SaltEcs == {0, 1, 10000, 20001}
\* a twelve-byte payload whose EC field (bytes 7 and 8) holds raw_ec, the
\* other fields as in scenario A
EcFrame(raw_ec) ==
    <<0, 232, 3, 0, 8, 200, 0, raw_ec % 256, raw_ec \div 256, 160, 12, 0>>

\* The handler alone on payloads that differ in the EC field
NextSalt == \E raw_ec \in SaltEcs : notification(1, EcFrame(raw_ec), MaxSamples)

SpecSalt == InitHandler /\ [][NextSalt]_vars

TypeOK ==
    /\ pc \in [Sessions -> {"idle", "connecting", "subscribing", "writing", "waiting",
                            "disconnecting", "returned", "raised"}]
    /\ client \in [Sessions -> {"none", "open", "closed"}]
    /\ cycles \in 0..MaxCycles

\* ------------------------------------------------ helpers of the properties
Ended(s) == pc[s] \in {"returned", "raised"}
InSession(s) == pc[s] \in {"connecting", "subscribing", "writing", "waiting", "disconnecting"}
Count(seq, x) == Cardinality({i \in 1..Len(seq) : seq[i] = x})
HasValue(sensors) == \E k \in DOMAIN sensors : sensors[k] # None
LastN(seq, n) == IF Len(seq) <= n THEN seq ELSE SubSeq(seq, Len(seq) - n + 1, Len(seq))
IsLong(frame) == Len(frame) >= 12

\* the device object after the handler has run on each payload of frames in turn
RECURSIVE Replay(_, _)
Replay(dev, frames) ==
    IF frames = <<>> THEN dev
    ELSE Replay(_receive_status(dev, Head(frames)), Tail(frames))

\* keep the present values of a sequence of optional values
RECURSIVE Present(_)
Present(opts) ==
    IF opts = <<>> THEN <<>>
    ELSE (IF Head(opts) = None THEN <<>> ELSE <<Head(opts)[1]>>) \o Present(Tail(opts))

\* the salt_ppm of every payload with raw_ec # 0, in arrival order
RECURSIVE SaltSamples(_)
SaltSamples(frames) ==
    IF frames = <<>> THEN <<>>
    ELSE (IF RawEc(Head(frames)) # 0 THEN <<RawEc(Head(frames)) * 256>> ELSE <<>>)
         \o SaltSamples(Tail(frames))

\* the chlorine_raw the handler reported after each payload, None left out
ChlorineSamples(frames) ==
    Present([i \in 1..Len(frames) |->
                Replay(IdentityOnly, SubSeq(frames, 1, i)).sensors["chlorine_raw"]])

\* ------------------------------------------------ C1
\* C1: whenever update_device has ended (returned or raised) after a successful
\* connect, the transport connection has been disconnected.
C1_DisconnectedWhenEnded ==
    \A s \in Sessions : (Ended(s) /\ client[s] # "none") => client[s] = "closed"

\* ------------------------------------------------ C2
\* C2: a call whose wait timed out does not raise; when it has returned,
\* disconnect was called exactly once, name and address are set and no sensor
\* key has a value.
C2_TimeoutSnapshotEmpty ==
    \A s \in Sessions :
        timedout[s] =>
            /\ pc[s] # "raised"
            /\ pc[s] = "returned" =>
                /\ Count(calls[s], "disconnect") = 1
                /\ device[s].name = Address
                /\ device[s].address = Address
                /\ ~HasValue(device[s].sensors)

\* ------------------------------------------------ C3
\* C3: a call with skip_query=True makes no transport call at all and returns
\* the identity fields with an empty sensor map and empty histories.
C3_SkipQueryNoTransport ==
    \A s \in Sessions :
        (skipped[s] /\ pc[s] # "idle") =>
            /\ pc[s] = "returned"
            /\ calls[s] = <<>>
            /\ client[s] = "none"
            /\ ~handler[s]
            /\ device[s].name = Address
            /\ device[s].address = Address
            /\ device[s].sensors = <<>>
            /\ device[s].chlorine_history = <<>>
            /\ device[s].salt_history = <<>>

C3_Witness == \E s \in Sessions : skipped[s] /\ pc[s] = "returned" /\ cycles >= 2

\* ------------------------------------------------ C4
\* C4: the histories persist across cycles: the call that ends the k-th
\* consecutive successful cycle (one notification, raw_ec # 0) returns a salt
\* history of min(k, 6) samples, and a chlorine history of min(k, 3) samples
\* when every chlorine_raw of those cycles was present.
C4_HistoriesPersist ==
    \A s \in Sessions :
        (pc[s] = "returned" /\ Len(rx[s]) = 1 /\ RawEc(rx[s][1]) # 0) =>
            /\ Len(device[s].salt_history) = Min(streak.salt + 1, 6)
            /\ device[s].sensors["chlorine_raw"] # None =>
                   Len(device[s].chlorine_history) = Min(streak.chlorine + 1, 3)

\* ------------------------------------------------ C5
\* C5: the chlorine history never holds more than 3 samples and the salt
\* history never more than 6, and each holds exactly the last samples appended
\* to it, in arrival order (the oldest is the one evicted).
C5_HistoryBoundedFifo ==
    \A s \in Sessions :
        /\ Len(device[s].chlorine_history) <= 3
        /\ Len(device[s].salt_history) <= 6
        /\ device[s].salt_history = LastN(SaltSamples(rx[s]), 6)
        /\ device[s].chlorine_history = LastN(ChlorineSamples(rx[s]), 3)

C5_Witness ==
    /\ Len(SaltSamples(rx[1])) > 6
    /\ Len(ChlorineSamples(rx[1])) > 3
    /\ \E i, j \in 1..Len(device[1].salt_history) :
           device[1].salt_history[i] # device[1].salt_history[j]

\* ------------------------------------------------ C6
\* C6: a payload shorter than the frame length is not decoded: after a cycle
\* that handled only short payloads no sensor key is written and no history
\* is modified.
C6_ShortFrameRejected ==
    \A s \in Sessions :
        (rx[s] # <<>> /\ \A i \in 1..Len(rx[s]) : ~IsLong(rx[s][i])) =>
            /\ device[s].sensors = <<>>
            /\ device[s].chlorine_history = <<>>
            /\ device[s].salt_history = <<>>

\* ------------------------------------------------ C7
\* C7: at most one session per device is active at any time: no call is
\* between its connect and the end of its disconnect while another one is.
C7_OneSessionAtATime ==
    \A s, t \in Sessions : (s # t /\ InSession(s)) => ~InSession(t)

\* ------------------------------------------------ C8
\* C8: when the connect step fails the call raises, no subscribe, write or
\* disconnect is attempted and no sensor field is populated.
C8_ConnectFailurePropagates ==
    \A s \in Sessions :
        exc[s] = "connect" =>
            /\ pc[s] \in {"raised", "idle"}
            /\ calls[s] = <<"connect">>
            /\ client[s] = "none"
            /\ ~handler[s]
            /\ device[s].sensors = <<>>

C8_Witness == \E s \in Sessions : exc[s] = "connect" /\ pc[s] = "raised"

\* ------------------------------------------------ C9
\* C9: once the handler has processed a full-length payload the sensor map
\* holds exactly the eleven keys, each a number or None.
C9_ElevenKeys ==
    \A s \in Sessions :
        (rx[s] # <<>> /\ IsLong(rx[s][Len(rx[s])])) =>
            /\ DOMAIN device[s].sensors = SensorKeys
            /\ \A k \in SensorKeys :
                   \/ device[s].sensors[k] = None
                   \/ /\ Len(device[s].sensors[k]) = 1
                      /\ device[s].sensors[k][1] \in Int

C9_Witness ==
    \E s \in Sessions :
        /\ rx[s] # <<>>
        /\ IsLong(rx[s][Len(rx[s])])
        /\ device[s].sensors["EC"] = None
        /\ device[s].sensors["chlorine_raw"] = None
        /\ device[s].sensors["battery"] # None

\* ------------------------------------------------ C10
\* C10: every cycle starts from a fresh Snapshot: at any point of a call the
\* device object is exactly what the notifications handled during this call
\* make of an identity-only device, so no sensor value of an earlier cycle is
\* in it, also when the call timed out.
C10_FreshSnapshot ==
    \A s \in Sessions :
        pc[s] # "idle" => device[s] = Replay(IdentityOnly, rx[s])

C10_Witness ==
    \E s \in Sessions :
        /\ pc[s] = "returned"
        /\ timedout[s]
        /\ rx[s] = <<>>
        /\ HasValue(data.sensors)
        /\ device[s].sensors = <<>>

\* ------------------------------------------------ C11
\* the payload handled by the step, when the step is a run of the handler of s
Handled(s) == Len(rx'[s]) = Len(rx[s]) + 1
LastFrame(frames) == frames[Len(frames)]
SaltKeys == {"EC", "salt", "salt_raw", "salt_grams"}
IsNumber(v) == v # None /\ Len(v) = 1 /\ v[1] \in Int

\* C11: a payload with raw_ec = 0 leaves EC, salt, salt_raw and salt_grams None
\* and the salt history unchanged; a payload with raw_ec # 0 gives all four a
\* number and appends exactly one sample to the salt history.
C11_EcZeroMeansAbsent ==
    [][\A s \in Sessions :
        Handled(s) =>
            LET sens == device'[s].sensors
                old  == device[s].salt_history
                new  == device'[s].salt_history
            IN  IF RawEc(LastFrame(rx'[s])) = 0
                THEN /\ \A k \in SaltKeys : k \in DOMAIN sens /\ sens[k] = None
                     /\ new = old
                ELSE /\ \A k \in SaltKeys : k \in DOMAIN sens /\ IsNumber(sens[k])
                     /\ new # <<>>
                     /\ new = LastN(Append(old, LastFrame(new)), 6)]_vars

C11_Witness ==
    /\ Len(rx[1]) >= 2
    /\ RawEc(LastFrame(rx[1])) = 0
    /\ RawEc(rx[1][Len(rx[1]) - 1]) # 0
    /\ device[1].salt_history # <<>>
    /\ device[1].sensors["EC"] = None
    /\ device[1].sensors["salt"] = None

\* ------------------------------------------------ C12
\* chlorine_ppm of a payload before the range check, given the salt history
\* the handler has after its salt step
EstimateOf(frame, salt_history) ==
    ChlorineEstimate(from_bytes(Slice(frame, 1, 3)), from_bytes(Slice(frame, 3, 5)),
                     from_bytes(Slice(frame, 5, 7)),
                     IF RawEc(frame) # 0
                     THEN Num(SumSeq(salt_history) \div Len(salt_history))
                     ELSE None)

\* C12: when chlorine_ppm exceeds 5, chlorine_raw is None (not 5), nothing is
\* appended to the chlorine history and chlorine is the mean of the unchanged
\* history, None if it is empty; otherwise chlorine_raw is a number, it is
\* appended, and chlorine is the mean of the history that includes it.
C12_ChlorineRangeCheck ==
    [][\A s \in Sessions :
        Handled(s) =>
            LET sens == device'[s].sensors
                old  == device[s].chlorine_history
                new  == device'[s].chlorine_history
            IN  IF EstimateOf(LastFrame(rx'[s]), device'[s].salt_history) > 50000
                THEN /\ sens["chlorine_raw"] = None
                     /\ new = old
                     /\ sens["chlorine"] =
                            IF old = <<>> THEN None
                            ELSE Num(RoundDiv(SumSeq(old), Len(old)))
                ELSE /\ IsNumber(sens["chlorine_raw"])
                     /\ sens["chlorine_raw"][1] <= 5000
                     /\ new = LastN(Append(old, sens["chlorine_raw"][1]), 3)
                     /\ sens["chlorine"] = Num(RoundDiv(SumSeq(new), Len(new)))]_vars

C12_Witness ==
    /\ rx[1] # <<>>
    /\ EstimateOf(LastFrame(rx[1]), device[1].salt_history) > 50000
    /\ device[1].chlorine_history # <<>>
    /\ device[1].sensors["chlorine_raw"] = None
    /\ device[1].sensors["chlorine"] # None

\* ------------------------------------------------ C13
ChlorineKeys == {"chlorine", "chlorine_raw"}
\* got differs from ref at most in the chlorine keys, which are both None in got
FaultCaught(got, ref) ==
    /\ DOMAIN got.sensors = DOMAIN ref.sensors
    /\ \A k \in DOMAIN ref.sensors \ ChlorineKeys : got.sensors[k] = ref.sensors[k]
    /\ got.salt_history = ref.salt_history
    /\ \A k \in ChlorineKeys : k \in DOMAIN got.sensors /\ got.sensors[k] = None

\* C13: a fault raised anywhere in the chlorine derivation is caught in the
\* handler: chlorine and chlorine_raw are both None, the nine other keys have
\* the values of the fault-free handler, and the handler completes (the event
\* is set, no exception leaves it).
C13_ChlorineFaultCaught ==
    [][\A s \in Sessions :
        Handled(s) =>
            LET frame == LastFrame(rx'[s])
                ref   == _receive_status(device[s], frame)
            IN  /\ event'[s] /\ exc'[s] = "none" /\ pc'[s] = pc[s]
                /\ device'[s].sensors = ref.sensors \/ FaultCaught(device'[s], ref)
                /\ \A fault \in Faults \ {"none"} :
                       FaultCaught(receive_status_fault(device[s], frame, fault), ref)]_vars

\* a fault hit a payload whose chlorine estimate is in range: the fault-free
\* replay of the payloads reports chlorine, the device reports None
C13_Witness ==
    /\ rx[1] # <<>>
    /\ Replay(IdentityOnly, rx[1]).sensors["chlorine_raw"] # None
    /\ device[1].sensors["chlorine_raw"] = None
    /\ device[1].sensors["chlorine"] = None
    /\ device[1].sensors["battery"] # None

\* ------------------------------------------------ C14
\* the battery field of a payload, low byte first
RawBatt(frame) == frame[10] + 256 * frame[11]

\* C14: for every 16-bit raw_batt the battery percentage (in 1/10 %) is 0 up
\* to 2800, 1000 from 3640 on, and (raw_batt - 2800) / 840 * 100 rounded to
\* one decimal between (23.8 for 3000), always within 0..100;
\* battery_voltage is raw_batt unscaled.
C14_BatteryClamped ==
    \A s \in Sessions :
        rx[s] # <<>> =>
            LET raw_batt == RawBatt(LastFrame(rx[s]))
                sens     == device[s].sensors
                battery  == sens["battery"][1]
            IN  /\ "battery" \in DOMAIN sens /\ "battery_voltage" \in DOMAIN sens
                /\ IsNumber(sens["battery"])
                /\ sens["battery_voltage"] = Num(raw_batt)
                /\ battery >= 0 /\ battery <= 1000
                /\ raw_batt <= 2800 => battery = 0
                /\ raw_batt >= 3640 => battery = 1000
                /\ (raw_batt > 2800 /\ raw_batt < 3640) =>
                       \* the nearest tenth: |840 * battery - 1000 * (raw_batt - 2800)| < 420
                       /\ 2 * (840 * battery - 1000 * (raw_batt - 2800)) < 840
                       /\ 2 * (1000 * (raw_batt - 2800) - 840 * battery) < 840
                /\ raw_batt = 3000 => battery = 238

C14_Witness ==
    /\ rx[1] # <<>>
    /\ RawBatt(LastFrame(rx[1])) = 3000
    /\ device[1].sensors["battery"] = Num(238)
    /\ device[1].sensors["battery_voltage"] = Num(3000)

\* ------------------------------------------------ C15
\* the unsigned 16-bit little-endian value at byte offset off (0-based)
U16(frame, off) == frame[off + 1] + 256 * frame[off + 2]
\* the payload with byte 0 zeroed and everything from offset 11 on dropped
Normalised(frame) == <<0>> \o SubSeq(frame, 2, 11)

\* C15: for a full-length payload the five raw values are the unsigned 16-bit
\* little-endian values at offsets 1, 3, 5, 7 and 9 (temperature, pH, ORP, EC,
\* battery); byte 0 and the bytes from offset 11 on do not change the result.
C15_FixedOffsetsLittleEndian ==
    [][\A s \in Sessions :
        (Handled(s) /\ IsLong(LastFrame(rx'[s]))) =>
            LET frame == LastFrame(rx'[s])
                sens  == device'[s].sensors
            IN  /\ DOMAIN sens = SensorKeys
                /\ sens["temperature"] = Num(U16(frame, 1))
                /\ sens["pH"] = Num(((2048 - U16(frame, 3)) * 1000) \div 232 + 7200)
                /\ sens["ORP"] = Num(U16(frame, 5) * 25 - 500)
                /\ sens["EC"] = IF U16(frame, 7) = 0 THEN None ELSE Num(U16(frame, 7))
                /\ sens["battery_voltage"] = Num(U16(frame, 9))
                /\ device'[s] = _receive_status(device[s], Normalised(frame))]_vars

\* a payload with a non-zero byte 0, a 13th byte, and a field whose two bytes differ
C15_Witness ==
    /\ rx[1] # <<>>
    /\ Len(LastFrame(rx[1])) = 13
    /\ LastFrame(rx[1])[1] # 0
    /\ LastFrame(rx[1])[13] # 0
    /\ device[1].sensors["temperature"] = Num(256)
    /\ device[1].sensors["battery_voltage"] = Num(1)

\* ------------------------------------------------ C16
\* salt_ppm = raw_ec * 0.256 in 1/1000 ppm, and the same rounded to one decimal
SaltPpm(raw_ec) == raw_ec * 256
SaltPpmRounded(raw_ec) == RoundDiv(raw_ec * 256, 100) * 100
\* the mean of the samples, rounded to two decimals (1/100 ppm)
SaltMean(samples) == RoundDiv(SumSeq(samples), Len(samples) * 10)

\* C16 as claimed: with raw_ec # 0 the sample appended to the salt history is
\* the current salt_raw (rounded to one decimal), salt is the mean of the
\* history after the append rounded to two decimals, and salt_grams is that
\* mean / 1000 rounded to one decimal.
C16_AppendsSaltRaw ==
    [][\A s \in Sessions :
        (Handled(s) /\ RawEc(LastFrame(rx'[s])) # 0) =>
            LET raw_ec == RawEc(LastFrame(rx'[s]))
                sens   == device'[s].sensors
                new    == LastN(Append(device[s].salt_history, SaltPpmRounded(raw_ec)), 6)
            IN  /\ sens["salt_raw"] = Num(SaltPpmRounded(raw_ec) \div 100)
                /\ device'[s].salt_history = new
                /\ sens["salt"] = Num(SaltMean(new))
                /\ sens["salt_grams"] = Num(RoundDiv(SumSeq(new), Len(new) * 100000))]_vars

\* C16 amended: the sample appended is the unrounded salt_ppm = raw_ec * 0.256;
\* salt_raw is salt_ppm rounded to one decimal, salt is the mean of the history
\* after the append rounded to two decimals, salt_grams that mean / 1000
\* rounded to one decimal.
C16_AppendsUnroundedSaltPpm ==
    [][\A s \in Sessions :
        (Handled(s) /\ RawEc(LastFrame(rx'[s])) # 0) =>
            LET raw_ec == RawEc(LastFrame(rx'[s]))
                sens   == device'[s].sensors
                new    == LastN(Append(device[s].salt_history, SaltPpm(raw_ec)), 6)
            IN  /\ sens["salt_raw"] = Num(SaltPpmRounded(raw_ec) \div 100)
                /\ device'[s].salt_history = new
                /\ sens["salt"] = Num(SaltMean(new))
                /\ sens["salt_grams"] = Num(RoundDiv(SumSeq(new), Len(new) * 100000))]_vars

\* salt_raw is 0.3 and salt is 0.26: the history holds 0.256, not 0.3
C16_Witness ==
    /\ rx[1] # <<>>
    /\ RawEc(LastFrame(rx[1])) = 1
    /\ device[1].salt_history = <<256>>
    /\ device[1].sensors["salt_raw"] = Num(3)
    /\ device[1].sensors["salt"] = Num(26)

\* ------------------------------------------------ C17
\* the step is coordinator.async_set_updated_data of session s
Updated(s) == pc[s] = "returned" /\ pc'[s] = "idle"
HasKeyValue(snapshot, key) == key \in DOMAIN snapshot.sensors /\ snapshot.sensors[key] # None

\* C17: a BlueConnectSensor does not become unavailable because of one update
\* in which its value is absent: an entity that was available stays available
\* after a single absent-value update (its count is 1, below the threshold of
\* three), and an update with a value resets the count to zero.
C17_OneAbsentCycleKeepsAvailable ==
    [][\A s \in Sessions, key \in SensorKeys :
        Updated(s) =>
            /\ HasKeyValue(data', key) =>
                   _consecutive_failures'[key] = 0 /\ available(key)'
            /\ (available(key) /\ _consecutive_failures[key] = 0 /\ ~HasKeyValue(data', key)) =>
                   _consecutive_failures'[key] = 1 /\ available(key)']_vars

\* ------------------------------------------------ C18
\* C18: within one update cycle the decode-and-derive chain runs for the first
\* notification only: a notification handled after the first one changes
\* neither the sensor map nor the chlorine and salt histories.
C18_FirstNotificationOnly ==
    [][\A s \in Sessions :
        (Handled(s) /\ rx[s] # <<>>) =>
            /\ device'[s].sensors = device[s].sensors
            /\ device'[s].chlorine_history = device[s].chlorine_history
            /\ device'[s].salt_history = device[s].salt_history]_vars

\* ------------------------------------------------ C19
\* the waiter of _get_status has resumed on a set event (not on the timeout),
\* or update_device has returned after that
ResumedOnNotification(s) ==
    pc[s] \in {"disconnecting", "returned"} /\ event[s] /\ ~timedout[s]

\* C19: the completion signal is released only after the Snapshot is
\* populated: whenever the waiter has resumed, or update_device has returned,
\* on a received notification, the Snapshot holds all eleven sensor keys,
\* never a part of them.
C19_SignalAfterPopulated ==
    \A s \in Sessions :
        ResumedOnNotification(s) =>
            /\ rx[s] # <<>>
            /\ DOMAIN device[s].sensors = SensorKeys

C19_Witness ==
    /\ pc[1] = "returned"
    /\ event[1]
    /\ ~timedout[1]
    /\ Len(rx[1]) = 1
    /\ DOMAIN device[1].sensors = SensorKeys

\* ------------------------------------------------ C20
\* C20: once the wait has been abandoned by timeout the notification handler
\* is no longer live: a notification that arrives after the timeout and before
\* the disconnect completes writes no sensor key into the Snapshot and appends
\* to no history.
C20_NoHandlerAfterTimeout ==
    [][\A s \in Sessions :
        (timedout[s] /\ pc[s] = "disconnecting") =>
            ~Handled(s) /\ device'[s] = device[s]]_vars

\* ------------------------------------------------ C21
TransportOrder == <<"connect", "start_notify", "write_gatt_char", "disconnect">>
IsPrefix(p, q) == Len(p) <= Len(q) /\ p = SubSeq(q, 1, Len(p))
\* the call of session s has got as far as the wait of line 70
ReachedWait(s) == pc[s] \in {"waiting", "disconnecting"} \/ (pc[s] = "returned" /\ ~skipped[s])

\* C21: the transport calls of an update cycle are made in the order connect,
\* subscribe, write trigger, disconnect, each at most once: the trigger is
\* written only after the subscription, exactly once in a cycle that reaches
\* the wait, and after a failure or a timeout neither the connect nor the
\* trigger write is made again.
C21_TransportOrderNoRetry ==
    \A s \in Sessions :
        /\ IsPrefix(calls[s], TransportOrder)
        /\ ReachedWait(s) =>
               /\ Count(calls[s], "write_gatt_char") = 1
               /\ Count(calls[s], "connect") = 1
        /\ (pc[s] = "raised" \/ timedout[s]) =>
               /\ Count(calls[s], "connect") = 1
               /\ Count(calls[s], "write_gatt_char") <= 1
        /\ pc[s] = "raised" => Count(calls[s], "disconnect") = 0

\* a cycle that timed out and returned: the four calls, each once
C21_Witness ==
    /\ pc[1] = "returned"
    /\ timedout[1]
    /\ calls[1] = TransportOrder

\* ------------------------------------------------ C22
\* every one of the eleven sensors has a value in the Snapshot
AllPresent(snapshot) ==
    /\ DOMAIN snapshot.sensors = SensorKeys
    /\ \A key \in SensorKeys : snapshot.sensors[key] # None

\* C22: the Failed Measurements sensor counts the updates since the last
\* update in which every sensor had a value: an update with all values present
\* resets it to 0, any other update, that of a timed-out cycle's Snapshot with
\* no sensor values included, adds one.  Stated for the updates that follow a
\* cycle which queried the peripheral.
C22_FailedMeasurementsCount ==
    [][\A s \in Sessions :
        (Updated(s) /\ ~skipped[s]) =>
            _consecutive_failures'["failed_measurements"] =
                IF AllPresent(data') THEN 0
                ELSE _consecutive_failures["failed_measurements"] + 1]_vars

\* ------------------------------------------------ C23
\* the step ends a press of session s with UpdateFailed
PressFailed(s) == update_failed'[s] # "none" /\ update_failed'[s] # update_failed[s]

\* C23: a press of the button either replaces coordinator.data by the Snapshot
\* update_device returned, or, when the device is not found or update_device
\* raised, raises UpdateFailed and leaves coordinator.data as it was;
\* coordinator.data is never set to the Snapshot of a call that raised.
C23_PressPublishesOrFails ==
    [][\A s \in Sessions :
        /\ Updated(s) => data' = device[s] /\ update_failed'[s] = "none"
        /\ (pc[s] = "raised" /\ pc'[s] = "idle") => PressFailed(s) /\ data' = data
        /\ PressFailed(s) =>
               /\ data' = data
               /\ _consecutive_failures' = _consecutive_failures
               /\ pc[s] \in {"raised", "idle"} /\ pc'[s] = "idle"
               /\ pc[s] = "idle" => calls' = calls /\ cycles' = cycles
        /\ (data' # data \/ _consecutive_failures' # _consecutive_failures) =>
               \E t \in Sessions : pc[t] = "returned" /\ exc[t] = "none" /\ Updated(t)]_vars

\* a press failed after a press had published values: the values are still there
C23_Witness ==
    /\ pc[1] = "idle"
    /\ update_failed[1] = "Error while reading data"
    /\ exc[1] # "none"
    /\ HasValue(data.sensors)

====
